---- MODULE Spec2Model ----
(***************************************************************************)
(* Model of DataJsonHandler (src/api.py): a tornado request handler that   *)
(* serves one aggregated JSON document, cached in class attributes, and    *)
(* refreshes it from five upstream sources under a tornado.locks.Lock.     *)
(*                                                                         *)
(* Every request is served by its own handler instance h.  A step of the   *)
(* model is one uninterrupted run of a coroutine on the IOLoop: from the   *)
(* point where it is (re)started to its next suspending yield or its end.  *)
(* Time is counted in hours, the unit of _timeout.                          *)
(***************************************************************************)
EXTENDS Integers, Sequences, FiniteSets, TLC

\* ---- bounds ----
NumHandlers == 3
MaxTime == 2

\* ---- program constants ----
\* _timeout = timedelta(hours=1): TTL and backoff window alike, in hours
Timeout == 1
\* the value every underivable field is set to
Sentinel == -1

Handlers == 1..NumHandlers
\* None as the cached response; documents carry the handler that built them
NoDoc == [by |-> 0]
NoResponse == [status |-> 0, body |-> NoDoc]
\* body of tornado's default error page for write_error(500)
ErrorPage == [by |-> 0, error |-> 500]

\* the five core sources in the order of the tuple given to gen.multi
Sources == 1..5
RepoSrc == 1
StableSrc == 2
ReleaseSrc == 3
ContribSrc == 4
TranslSrc == 5

\* What a completed core fetch can be, seen from the code that consumes it:
\*   "err"  response.error is set (non-2xx status or transport error)
\*   "ok"   no error, and the body holds what the assembly looks for
\*   "miss" no error, but the body does not hold what the assembly looks for
CoreOutcomes == {"err", "ok", "miss"}
Pending == "pending"
NoResponses == [i \in Sources |-> Pending]

\* The tuples gen.multi can resolve to.  The loop of lines 131-134 returns at
\* the first error and no body of such a tuple is ever read, so the tuples with
\* an error are taken with "ok" in their other places.
ResponseTuples ==
    {r \in [Sources -> CoreOutcomes] :
        (\E i \in Sources : r[i] = "err") => (\A i \in Sources : r[i] # "miss")}

\* how many responses of a tuple carry an error: none, one, several (2)
ErrorCount(r) ==
    LET n == Cardinality({i \in Sources : r[i] = "err"})
    IN IF n > 1 THEN 2 ELSE n

\* What the chained build.gradle fetch can be (raise_error=False, so it never raises):
\*   "err"     failed fetch, body None or an error page without "versionCode"
\*   "nomatch" no error, body without "versionCode"
\*   "code"    body with "versionCode 1"
\*   "garbage" body with "versionCode" followed by something that is no integer
GradleOutcomes == {"err", "nomatch", "code", "garbage"}

\* no write yet (handlers are numbered from 1, 0 is no handler)
NoWrite == [writer |-> 0, holder |-> 0]

VARIABLES
    now,                   \* datetime.now(), in hours
    _last_request,         \* cls._last_request
    _last_failed_request,  \* cls._last_failed_request
    _cached_response,      \* cls._cached_response (NoDoc models None)
    lockHeld,              \* cls._lock: the semaphore's value is 0
    lockWaiters,           \* cls._lock: queue of the handlers waiting in acquire()
    pc,                    \* where each handler's coroutine is
    responses,             \* each handler's local `responses`, once gen.multi resolved
    reply,                 \* what each handler has sent to its client
    issued,                \* history: number of core fetch sets each handler issued
    chainedIssued,         \* history: number of chained fetches each handler issued
    queued,                \* history: the handler found the lock held and waited in acquire()
    errors,                \* history: ErrorCount of the handler's five responses
    gradle,                \* history: the handler's chained fetch gave a version code, or not
    releases,              \* history: number of lock.release() calls each handler made
    lfWrite,               \* history: last write of _last_failed_request: who wrote, who held the lock
    cacheWrite             \* history: last update_cache: who wrote, who held the lock

vars == <<now, _last_request, _last_failed_request, _cached_response, lockHeld,
          lockWaiters, pc, responses, reply, issued, chainedIssued, queued, errors, gradle,
          releases, lfWrite, cacheWrite>>

shared == <<_last_request, _last_failed_request, _cached_response>>
audit == <<releases, lfWrite, cacheWrite>>
history == <<issued, chainedIssued, queued, errors, gradle, audit>>

\* the start with the failure time at the moment of the start
InitNoSentinel ==
    /\ now = 0
    /\ _last_request = 0 - 2 * Timeout
    /\ _last_failed_request = 0
    /\ _cached_response = NoDoc
    /\ lockHeld = FALSE
    /\ lockWaiters = <<>>
    /\ pc = [h \in Handlers |-> "idle"]
    /\ responses = [h \in Handlers |-> NoResponses]
    /\ reply = [h \in Handlers |-> NoResponse]
    /\ issued = [h \in Handlers |-> 0]
    /\ chainedIssued = [h \in Handlers |-> 0]
    /\ queued = [h \in Handlers |-> FALSE]
    /\ errors = [h \in Handlers |-> 0]
    /\ gradle = [h \in Handlers |-> "none"]
    /\ releases = [h \in Handlers |-> 0]
    /\ lfWrite = NoWrite
    /\ cacheWrite = NoWrite

Init ==
    /\ now = 0
    /\ _last_request = 0 - 2 * Timeout
    /\ _last_failed_request = 0 - 2 * Timeout
    /\ _cached_response = NoDoc
    /\ lockHeld = FALSE
    /\ lockWaiters = <<>>
    /\ pc = [h \in Handlers |-> "idle"]
    /\ responses = [h \in Handlers |-> NoResponses]
    /\ reply = [h \in Handlers |-> NoResponse]
    /\ issued = [h \in Handlers |-> 0]
    /\ chainedIssued = [h \in Handlers |-> 0]
    /\ queued = [h \in Handlers |-> FALSE]
    /\ errors = [h \in Handlers |-> 0]
    /\ gradle = [h \in Handlers |-> "none"]
    /\ releases = [h \in Handlers |-> 0]
    /\ lfWrite = NoWrite
    /\ cacheWrite = NoWrite

\* ---- the cache gate ----

\* the backoff test with the boundary on the wrong side
InBackoffInclusive == (now - _last_failed_request) <= Timeout

\* get(): the test of the first branch
InBackoff == (now - _last_failed_request) < Timeout

is_request_outdated ==
    IF _cached_response = NoDoc THEN TRUE
    ELSE IF (now - _last_request) > Timeout THEN TRUE
    ELSE FALSE

\* a handler is between lock.acquire() being granted and its release
HoldsLock(h) == pc[h] \in {"granted", "fetching", "chained", "crashed"}
\* a handler is executing a refresh
InRefresh(h) == pc[h] \in {"granted", "fetching", "chained"}

\* the clock advances
Tick ==
    /\ now < MaxTime
    /\ now' = now + 1
    /\ UNCHANGED <<shared, lockHeld, lockWaiters, pc, responses, reply, history>>

\* get(), first branch: write_error(500) renders the error page and finishes
\* the request; unlike send_error it does not call set_status, so the status
\* line keeps the handler's default 200
Reject(h) ==
    /\ InBackoff
    /\ reply' = [reply EXCEPT ![h] = [status |-> 200, body |-> ErrorPage]]
    /\ pc' = [pc EXCEPT ![h] = "done"]
    /\ UNCHANGED <<now, shared, lockHeld, lockWaiters, responses, history>>

\* the cached answer counted as a use of the cache
ServeCachedTouching(h) ==
    /\ ~InBackoff
    /\ ~is_request_outdated
    /\ reply' = [reply EXCEPT ![h] = [status |-> 200, body |-> _cached_response]]
    /\ pc' = [pc EXCEPT ![h] = "done"]
    /\ _last_request' = now
    /\ UNCHANGED <<now, _last_failed_request, _cached_response, lockHeld, lockWaiters,
                   responses, history>>

\* get(), last branch: write(self._cached_response)
ServeCached(h) ==
    /\ ~InBackoff
    /\ ~is_request_outdated
    /\ reply' = [reply EXCEPT ![h] = [status |-> 200, body |-> _cached_response]]
    /\ pc' = [pc EXCEPT ![h] = "done"]
    /\ UNCHANGED <<now, shared, lockHeld, lockWaiters, responses, history>>

\* fetch_data_and_assemble_response from the resumption after lock.acquire()
\* to the yield of gen.multi: the five core fetches are issued
IssueCoreFetches(h) ==
    /\ pc' = [pc EXCEPT ![h] = "fetching"]
    /\ responses' = [responses EXCEPT ![h] = NoResponses]
    /\ issued' = [issued EXCEPT ![h] = @ + 1]

\* the refresh entered without regard to the lock
StartRefreshUnlocked(h) ==
    /\ ~InBackoff
    /\ is_request_outdated
    /\ lockHeld' = TRUE
    /\ IssueCoreFetches(h)
    /\ UNCHANGED <<lockWaiters, queued>>
    /\ UNCHANGED <<now, shared, reply, chainedIssued, errors, gradle, audit>>

\* get(), second branch: lock.acquire() on a free lock returns a resolved
\* future and the coroutine runs on; on a held lock the handler is queued
StartRefresh(h) ==
    /\ ~InBackoff
    /\ is_request_outdated
    /\ IF ~lockHeld
       THEN /\ lockHeld' = TRUE
            /\ IssueCoreFetches(h)
            /\ UNCHANGED <<lockWaiters, queued>>
       ELSE /\ lockWaiters' = Append(lockWaiters, h)
            /\ pc' = [pc EXCEPT ![h] = "waiting"]
            /\ queued' = [queued EXCEPT ![h] = TRUE]
            /\ UNCHANGED <<lockHeld, responses, issued>>
    /\ UNCHANGED <<now, shared, reply, chainedIssued, errors, gradle, audit>>

\* a request arrives: a new handler runs get() up to its first suspension
Arrive(h) ==
    /\ pc[h] = "idle"
    /\ \A g \in Handlers : g < h => pc[g] # "idle"
    /\ \/ Reject(h)
       \/ ServeCached(h)
       \/ StartRefresh(h)

\* ---- the refresh ----

\* tornado.locks.Lock.release(): the lock goes to the first queued waiter, whose
\* acquire() future is resolved (its coroutine resumes in a later IOLoop
\* callback); without waiters the lock becomes free.  newpc is where the
\* releasing handler goes.
ReleaseLock(h, newpc) ==
    IF lockWaiters = <<>>
    THEN /\ lockHeld' = FALSE
         /\ pc' = [pc EXCEPT ![h] = newpc]
         /\ UNCHANGED lockWaiters
    ELSE /\ lockWaiters' = Tail(lockWaiters)
         /\ pc' = [pc EXCEPT ![h] = newpc, ![Head(lockWaiters)] = "granted"]
         /\ UNCHANGED lockHeld

\* who holds the lock once the holder has called release(): the first waiter, or nobody
HolderAfterRelease == IF lockWaiters = <<>> THEN 0 ELSE Head(lockWaiters)

\* the loop of lines 131-134 returns at the first response with an error: the
\* responses validate_response released the lock for
LoopReleases(r) ==
    Cardinality({i \in Sources : r[i] = "err" /\ \A j \in Sources : j < i => r[j] # "err"})

\* a handler whose acquire() was granted by a release resumes after line 97
Resume(h) ==
    /\ pc[h] = "granted"
    /\ IssueCoreFetches(h)
    /\ UNCHANGED <<now, shared, lockHeld, lockWaiters, reply, chainedIssued, queued, errors, gradle, audit>>

\* the validation looking at the first response only
AllValidFirstOnly(r) == r[RepoSrc] # "err"

\* the validation looking at the last response only
AllValidLastOnly(r) == r[TranslSrc] # "err"

\* validate_response over the tuple, as the loop of lines 131-134 sees it
AllValid(r) == \A i \in Sources : r[i] # "err"

\* the uncaught exceptions of the assembly before the chained fetch:
\* json.loads(repo_data) on a body that is no JSON
RaisesBeforeChained(r) == r[RepoSrc] = "miss"

\* the release page carries the commit hash the chained URL is built from
HasReleaseHash(r) == r[ReleaseSrc] = "ok"

\* lines 193-198: the version code as left by the try block, as text
\* ("-1" stands for the integer -1 of the except branch and of line 181)
release_github_version_code(g) ==
    CASE g = "code" -> "1"
      [] g = "garbage" -> "abc"
      [] OTHER -> "-1"

IsIntText(t) == t \in {"1", "-1"}
IntOf(t) == IF t = "1" THEN 1 ELSE Sentinel

\* the uncaught exceptions of the assembly after the chained fetch:
\* json.loads(translations_data) / translations["count"], repo[...] lookups,
\* int(release_github_version_code), assemble_release_data(stable_data)
RaisesAfterChained(r, vc) ==
    \/ r[TranslSrc] = "miss"
    \/ ~IsIntText(vc)
    \/ r[StableSrc] = "miss"

\* lines 200-233: the document built from the bodies
data(h, r, vc) ==
    [by |-> h,
     contributors |-> IF r[ContribSrc] = "ok" THEN 1 ELSE Sentinel,
     version_code |-> IntOf(vc)]

\* an exception leaves the coroutine: the lock is not released, the class
\* attributes are untouched, tornado answers the request with send_error(500)
Crash(h) ==
    /\ pc' = [pc EXCEPT ![h] = "crashed"]
    /\ reply' = [reply EXCEPT ![h] = [status |-> 500, body |-> ErrorPage]]
    /\ responses' = [responses EXCEPT ![h] = NoResponses]
    /\ UNCHANGED <<shared, lockHeld, lockWaiters, audit>>

\* the cache filled once and never replaced
update_cacheKeepFirst(d) ==
    /\ _cached_response' = IF _cached_response = NoDoc THEN d ELSE _cached_response
    /\ _last_request' = now

\* the cache updated without its time
update_cacheDocOnly(d) ==
    /\ _cached_response' = d
    /\ UNCHANGED _last_request

\* update_cache
update_cache(d) ==
    /\ _cached_response' = d
    /\ _last_request' = now

\* lines 200-244: assemble, update the cache, release the lock, answer
Finish(h, r, vc) ==
    IF RaisesAfterChained(r, vc)
    THEN Crash(h)
    ELSE /\ update_cache(data(h, r, vc))
         /\ ReleaseLock(h, "done")
         /\ reply' = [reply EXCEPT ![h] = [status |-> 200, body |-> data(h, r, vc)]]
         /\ responses' = [responses EXCEPT ![h] = NoResponses]
         /\ cacheWrite' = [writer |-> h, holder |-> h]
         /\ releases' = [releases EXCEPT ![h] = @ + 1]
         /\ UNCHANGED <<_last_failed_request, lfWrite>>

\* the failure path dropping the cached document
FailRefreshClearing(h) ==
    /\ ReleaseLock(h, "done")
    /\ reply' = [reply EXCEPT ![h] = [status |-> 500, body |-> ErrorPage]]
    /\ _last_failed_request' = now
    /\ responses' = [responses EXCEPT ![h] = NoResponses]
    /\ _cached_response' = NoDoc
    /\ lfWrite' = [writer |-> h, holder |-> HolderAfterRelease]
    /\ UNCHANGED <<_last_request, cacheWrite>>

\* the failure path putting the success time back to its start value
FailRefreshInvalidating(h) ==
    /\ ReleaseLock(h, "done")
    /\ reply' = [reply EXCEPT ![h] = [status |-> 500, body |-> ErrorPage]]
    /\ _last_failed_request' = now
    /\ responses' = [responses EXCEPT ![h] = NoResponses]
    /\ lfWrite' = [writer |-> h, holder |-> HolderAfterRelease]
    /\ _last_request' = now - 2 * Timeout
    /\ UNCHANGED <<_cached_response, cacheWrite>>

\* lines 131-134 on a tuple with an error: validate_response releases the lock
\* and sends the error, then the failure time is recorded, by when the lock
\* is the first waiter's or free
FailRefresh(h) ==
    /\ ReleaseLock(h, "done")
    /\ reply' = [reply EXCEPT ![h] = [status |-> 500, body |-> ErrorPage]]
    /\ _last_failed_request' = now
    /\ responses' = [responses EXCEPT ![h] = NoResponses]
    /\ lfWrite' = [writer |-> h, holder |-> HolderAfterRelease]
    /\ UNCHANGED <<_last_request, _cached_response, cacheWrite>>

\* gen.multi has resolved with the tuple r of the five responses: the
\* coroutine runs from line 131 to the yield of the chained fetch, or to its
\* end when no chained fetch is made
FanIn(h, r) ==
    /\ pc[h] = "fetching"
    /\ errors' = [errors EXCEPT ![h] = ErrorCount(r)]
    /\ IF ~AllValid(r)
       THEN /\ FailRefresh(h)
            /\ releases' = [releases EXCEPT ![h] = @ + LoopReleases(r)]
            /\ UNCHANGED chainedIssued
       ELSE IF RaisesBeforeChained(r)
       THEN Crash(h) /\ UNCHANGED chainedIssued
       ELSE IF HasReleaseHash(r)
       THEN /\ pc' = [pc EXCEPT ![h] = "chained"]
            /\ responses' = [responses EXCEPT ![h] = r]
            /\ chainedIssued' = [chainedIssued EXCEPT ![h] = @ + 1]
            /\ UNCHANGED <<shared, lockHeld, lockWaiters, reply, audit>>
       ELSE Finish(h, r, "-1") /\ UNCHANGED chainedIssued
    /\ UNCHANGED <<now, issued, queued, gradle>>

\* the chained build.gradle fetch completes: lines 191-244
ChainedComplete(h, g) ==
    /\ pc[h] = "chained"
    /\ Finish(h, responses[h], release_github_version_code(g))
    /\ gradle' = [gradle EXCEPT ![h] = IF g = "code" THEN "parsed" ELSE "failed"]
    /\ UNCHANGED <<now, issued, chainedIssued, queued, errors>>

Next ==
    \/ Tick
    \/ \E h \in Handlers : Arrive(h)
    \/ \E h \in Handlers : Resume(h)
    \/ \E h \in Handlers, r \in ResponseTuples : FanIn(h, r)
    \/ \E h \in Handlers, g \in GradleOutcomes : ChainedComplete(h, g)

Spec == Init /\ [][Next]_vars

TypeOK ==
    /\ now \in 0..MaxTime
    /\ lockHeld \in BOOLEAN
    /\ \A h \in Handlers : pc[h] \in {"idle", "waiting", "granted", "fetching", "chained", "crashed", "done"}

\* ---- properties ----

\* handler h's request arrives in this step
Arrives(h) == pc[h] = "idle" /\ pc'[h] # "idle"
\* handler h's gen.multi resolves in this step
FansIn(h) == pc[h] = "fetching" /\ pc'[h] # "fetching"
\* handler h went for a refresh: it passed both checks of get()
Entered(h) == issued[h] > 0 \/ pc[h] \in {"waiting", "granted"}
\* handlers h1 and h2 went for a refresh together: every handler that went for
\* one after h1, up to h2, found the lock held
Concurrent(h1, h2) ==
    /\ h1 < h2
    /\ Entered(h1)
    /\ Entered(h2)
    /\ \A g \in (h1 + 1)..h2 : Entered(g) => queued[g]
ServerError == [status |-> 500, body |-> ErrorPage]

\* C1: the requests that go for a refresh together (stale cache, no backoff)
\* issue one set of the five core fetches between them: no two of them both
\* issue the fetches.
C1_SingleFlight ==
    \A h1, h2 \in Handlers :
        Concurrent(h1, h2) => ~(issued[h1] > 0 /\ issued[h2] > 0)

\* C2: a request that found the lock held starts no refresh of its own, and
\* what it answers is the answer of an earlier handler's refresh.
C2_WaiterInherits ==
    \A h \in Handlers :
        queued[h] =>
            /\ issued[h] = 0
            /\ pc[h] = "done" =>
                   \E g \in Handlers : g < h /\ issued[g] > 0 /\ reply[h] = reply[g]

\* C3: a request arriving while a document is cached and now - lastSuccessAt
\* <= TTL issues no upstream fetch and is answered with the cached document.
C3_TTLRespected ==
    [][\A h \in Handlers :
          (Arrives(h) /\ _cached_response # NoDoc /\ (now - _last_request) <= Timeout)
              => /\ issued'[h] = 0
                 /\ pc'[h] = "done"
                 /\ reply'[h] = [status |-> 200, body |-> _cached_response]]_vars

\* C4: a request arriving with now - lastFailureAt < backoffWindow is answered
\* at once with HTTP status 500, issues no fetch and leaves the lock alone.
C4_BackoffRejects ==
    [][\A h \in Handlers :
          (Arrives(h) /\ (now - _last_failed_request) < Timeout)
              => /\ pc'[h] = "done"
                 /\ reply'[h].status = 500
                 /\ issued'[h] = 0
                 /\ lockHeld' = lockHeld
                 /\ lockWaiters' = lockWaiters]_vars

\* C5: a request arriving with now - lastFailureAt >= backoffWindow is not
\* answered by the backoff branch, and with a stale cache it goes for a refresh
\* (it issues the fetches or queues for the lock).
C5_BackoffExpires ==
    [][\A h \in Handlers :
          (Arrives(h) /\ (now - _last_failed_request) >= Timeout)
              => /\ reply'[h].body # ErrorPage
                 /\ (_cached_response = NoDoc \/ (now - _last_request) > Timeout)
                        => pc'[h] \in {"fetching", "waiting"}]_vars

\* a handler arrived exactly one backoff window after a recorded failure and
\* is fetching
C5_Witness ==
    \E h \in Handlers :
        /\ pc[h] = "fetching"
        /\ ~queued[h]
        /\ _last_failed_request >= 0
        /\ now - _last_failed_request = Timeout

\* C6: when at least one of the five responses carries an error, the refresh
\* fails: lastFailureAt becomes the current time and the handler answers with
\* the server error, never with a document.
C6_CoreFailure ==
    [][\A h \in Handlers :
          (FansIn(h) /\ errors'[h] >= 1)
              => /\ pc'[h] = "done"
                 /\ _last_failed_request' = now
                 /\ reply'[h] = ServerError]_vars

\* a refresh failed on exactly one erroneous response while a document was cached
C6_Witness ==
    \E h \in Handlers :
        /\ errors[h] = 1
        /\ pc[h] = "done"
        /\ reply[h] = ServerError
        /\ _cached_response # NoDoc

\* C7: a refresh that fails (a response with an error, or an exception out of
\* the assembly) leaves the cached document and lastSuccessAt as they were.
C7_FailureFrame ==
    [][\A h \in Handlers :
          ((FansIn(h) /\ errors'[h] >= 1) \/ (InRefresh(h) /\ pc'[h] = "crashed"))
              => /\ _cached_response' = _cached_response
                 /\ _last_request' = _last_request]_vars

\* a refresh failed after an earlier handler's document had been cached, and
\* that document is still the cached one
C7_Witness ==
    \E h \in Handlers :
        /\ errors[h] >= 1
        /\ pc[h] = "done"
        /\ _cached_response # NoDoc
        /\ _cached_response.by < h
        /\ _last_request >= 0

\* C8: when the five core fetches succeeded and the chained fetch gave no
\* version code, the refresh succeeds: its document is cached with version_code
\* -1, lastSuccessAt advances, lastFailureAt stays.
C8_ChainedDegrades ==
    [][\A h \in Handlers :
          (pc[h] = "chained" /\ gradle'[h] = "failed")
              => /\ pc'[h] = "done"
                 /\ reply'[h].status = 200
                 /\ _cached_response' = reply'[h].body
                 /\ _cached_response'.by = h
                 /\ _cached_response'.version_code = Sentinel
                 /\ _last_request' = now
                 /\ _last_failed_request' = _last_failed_request]_vars

\* C9: a refresh whose five core fetches all succeeded ends with its document
\* sent (and never with an error).
C9_AssemblyNeverFails ==
    \A h \in Handlers :
        (issued[h] > 0 /\ errors[h] = 0 /\ pc[h] \in {"done", "crashed"})
            => /\ pc[h] = "done"
               /\ reply[h].status = 200
               /\ reply[h].body.by = h

\* C10: at most one handler is between acquiring the lock and releasing it.
C10_MutualExclusion ==
    Cardinality({h \in Handlers : HoldsLock(h)}) <= 1

\* a handler that had queued for the lock is fetching while another one waits
C10_Witness ==
    \E h1, h2 \in Handlers :
        /\ pc[h1] = "fetching"
        /\ queued[h1]
        /\ pc[h2] = "waiting"

\* handler h's answer carries a document
DocReply(h) == reply[h].status = 200 /\ reply[h].body # ErrorPage
\* handler h's refresh ended with its document cached and sent
Succeeded(h) == issued[h] > 0 /\ DocReply(h)
\* handler h's refresh is over
RefreshOver(h) == issued[h] > 0 /\ pc[h] \in {"done", "crashed"}

\* C11: a refresh releases the lock on every path out of it: whenever no
\* handler is executing a refresh, the lock is free.
C11_LockReleased ==
    (\A h \in Handlers : ~InRefresh(h)) => ~lockHeld

\* C12: answering a request that arrives while a document is cached and
\* now - lastSuccessAt <= TTL changes none of the cached document,
\* lastSuccessAt, lastFailureAt and the lock.
C12_IdempotentServe ==
    [][\A h \in Handlers :
          (Arrives(h) /\ _cached_response # NoDoc /\ (now - _last_request) <= Timeout)
              => /\ _cached_response' = _cached_response
                 /\ _last_request' = _last_request
                 /\ _last_failed_request' = _last_failed_request
                 /\ lockHeld' = lockHeld
                 /\ lockWaiters' = lockWaiters]_vars

\* two requests have been answered from the cache, one after the other
C12_Witness ==
    \E h1, h2 \in Handlers :
        /\ h1 # h2
        /\ issued[h1] = 0 /\ DocReply(h1) /\ reply[h1].body = _cached_response
        /\ issued[h2] = 0 /\ DocReply(h2) /\ reply[h2].body = _cached_response

\* C13: the cached document is only replaced by the document of a later
\* refresh, and an answer carrying a document never carries an older one than
\* an answer sent before it.
C13_MonotonicReads ==
    [][/\ _cached_response'.by >= _cached_response.by
       /\ \A h \in Handlers :
             (reply'[h] # reply[h] /\ reply'[h].status = 200 /\ reply'[h].body # ErrorPage)
                 => \A g \in Handlers : DocReply(g) => reply'[h].body.by >= reply[g].body.by]_vars

\* two refreshes have succeeded and answered, and a request was then answered
\* from the cache with the document of the second
C13_Witness ==
    \E h1, h2, h3 \in Handlers :
        /\ Succeeded(h1) /\ Succeeded(h2) /\ h1 < h2
        /\ issued[h3] = 0 /\ DocReply(h3)
        /\ reply[h3].body = reply[h2].body

\* C14: when a handler issues the five core fetches, now - lastFailureAt >=
\* backoffWindow.
C14_NoRefreshInBackoff ==
    [][\A h \in Handlers :
          issued'[h] > issued[h] => (now - _last_failed_request) >= Timeout]_vars

\* C15: whoever writes lastFailureAt holds the lock at the write.
C15_FailureWriteLocked ==
    lfWrite.writer # 0 => lfWrite.holder = lfWrite.writer

\* C16: the cached document and lastSuccessAt are written by the lock's holder
\* and together; a document is cached exactly when a refresh has succeeded, and
\* it is the document of the latest successful refresh.
C16_CacheWrite ==
    /\ [](/\ cacheWrite.writer # 0 => cacheWrite.holder = cacheWrite.writer
          /\ (_cached_response # NoDoc) <=> (\E h \in Handlers : Succeeded(h))
          /\ (_cached_response # NoDoc) <=> (_last_request >= 0)
          /\ \A h \in Handlers :
                (Succeeded(h) /\ \A g \in Handlers : Succeeded(g) => g <= h)
                    => (_cached_response = reply[h].body /\ cacheWrite.writer = h))
    /\ [][(_cached_response' # _cached_response \/ _last_request' # _last_request)
             => /\ _cached_response'.by # _cached_response.by
                /\ _last_request' = now
                /\ \E h \in Handlers :
                      /\ InRefresh(h)
                      /\ pc'[h] = "done"
                      /\ _cached_response' = reply'[h].body
                      /\ _cached_response'.by = h]_vars

\* a second successful refresh has replaced the document of a first one
C16_Witness ==
    \E h1, h2 \in Handlers :
        /\ h1 < h2
        /\ Succeeded(h1) /\ Succeeded(h2)
        /\ _cached_response = reply[h2].body
        /\ cacheWrite.writer = h2

\* C17: a refresh issues the chained fetch at most once, after the fan-in and
\* only when no response carried an error; a refresh with an erroneous response
\* issues no chained fetch, builds no document and does not update the cache.
C17_ChainedOrdering ==
    \A h \in Handlers :
        /\ chainedIssued[h] <= 1
        /\ chainedIssued[h] > 0 =>
               (errors[h] = 0 /\ issued[h] = 1 /\ pc[h] \in {"chained", "done", "crashed"})
        /\ errors[h] >= 1 =>
               (chainedIssued[h] = 0 /\ gradle[h] = "none" /\ reply[h] = ServerError
                /\ _cached_response.by # h /\ cacheWrite.writer # h)

\* one refresh has made its chained fetch and ended, another one failed on an
\* erroneous response
C17_Witness ==
    \E h, g \in Handlers :
        /\ chainedIssued[h] = 1 /\ pc[h] = "done" /\ gradle[h] # "none"
        /\ errors[g] >= 1 /\ pc[g] = "done"

\* C18: lastSuccessAt and lastFailureAt never decrease.
C18_Monotonic ==
    [][/\ _last_request' >= _last_request
       /\ _last_failed_request' >= _last_failed_request]_vars

\* both times have been written, the later refresh by a handler that had
\* queued for the lock
C18_Witness ==
    /\ _last_request >= 0
    /\ _last_failed_request >= 0
    /\ \E h \in Handlers : queued[h] /\ RefreshOver(h) /\ errors[h] >= 1

\* C19: at the start no document is cached and both times lie more than a
\* timeout back; the first request is neither rejected nor answered from the
\* cache: it takes the lock and issues the fetches.
C19_Startup ==
    /\ (\A h \in Handlers : pc[h] = "idle") =>
           /\ _cached_response = NoDoc
           /\ (now - _last_request) > Timeout
           /\ (now - _last_failed_request) >= Timeout
    /\ \E first \in Handlers :
           /\ \A h \in Handlers : first <= h
           /\ pc[first] # "idle" => (issued[first] = 1 /\ ~queued[first])

\* the first request has arrived and is fetching, no other has arrived
C19_Witness ==
    \E first \in Handlers :
        /\ pc[first] = "fetching"
        /\ \A h \in Handlers : h # first => pc[h] = "idle"

\* C20: a handler releases the lock once for its acquisition: never more often
\* than it acquired it, and once its refresh is over, exactly once.
C20_ReleaseOnce ==
    \A h \in Handlers :
        /\ releases[h] <= issued[h]
        /\ RefreshOver(h) => releases[h] = 1
====
